---- MODULE Spec2Model ----
(***************************************************************************)
(* A model of the imgui-filedialog crate (imgui-filedialog/src/lib.rs):    *)
(* the FileDialog context, the FileDialogBuilder, the per-frame session    *)
(* protocol and the result types, over an abstract native ImGuiFileDialog  *)
(* engine and an abstract C heap.                                          *)
(*                                                                         *)
(* A Rust &str is a sequence of code points, a C buffer a sequence of      *)
(* bytes.  Byte 0 is the terminator, byte 255 is a byte that is never      *)
(* valid UTF-8, code point 65533 is U+FFFD.                                *)
(***************************************************************************)
EXTENDS Integers, Sequences, FiniteSets, TLC

VARIABLES
    dlg,        \* the FileDialog value: "live" or "dropped"
    inst,       \* the native instance behind FileDialog.ptr: "alive" or "destroyed"
    nat,        \* the native engine's session state: [phase, key, sel]
    bstate,     \* the FileDialogBuilder value: none/configuring/finalized/panicked/dropped
    b,          \* the FileDialogBuilder fields
    given,      \* what the application passed to the builder's configuration calls
    bOpens,     \* native open calls issued on behalf of the current builder
    lastCall,   \* the native open call issued by the step just taken, if any
    openKeys,   \* keys given to a native open call since the last close()
    opened,     \* whether a native open call was ever issued on this FileDialog
    heap,       \* the C heap: native string buffers and selection tables
    owned,      \* the live Selection values: the [table, count] each holds
    faults,     \* memory-safety violations seen so far
    ret,        \* the result of the operation just executed
    owner,      \* the thread that holds the FileDialog value
    running     \* the threads inside a call of a FileDialog or builder method

vars == <<dlg, inst, nat, bstate, b, given, bOpens, lastCall, openKeys, opened,
          heap, owned, faults, ret, owner, running>>

----------------------------------------------------------------------------
(* Bounds of the model *)

\* Selection values the application holds at the same time
MaxSel == 1

\* Threads of the application
MaxThreads == 2

----------------------------------------------------------------------------
(* Strings *)

NUL == 0
BadByte == 255
ReplacementChar == 65533

\* The UTF-8 encoding of one code point (ASCII and U+FFFD are all the model uses)
Utf8(c) == IF c = ReplacementChar THEN <<239, 191, 189>> ELSE <<c>>

RECURSIVE Encode(_)
Encode(s) == IF s = <<>> THEN <<>> ELSE Utf8(Head(s)) \o Encode(Tail(s))

\* String::from_utf8_lossy on bytes: every invalid byte becomes U+FFFD
RECURSIVE to_string_lossy(_)
to_string_lossy(bytes) ==
    IF bytes = <<>> THEN <<>>
    ELSE <<IF Head(bytes) = BadByte THEN ReplacementChar ELSE Head(bytes)>>
             \o to_string_lossy(Tail(bytes))

\* CStr::from_ptr: the bytes of a buffer up to its first terminator
RECURSIVE CStr_from_ptr(_)
CStr_from_ptr(bytes) ==
    IF bytes = <<>> \/ Head(bytes) = NUL THEN <<>>
    ELSE <<Head(bytes)>> \o CStr_from_ptr(Tail(bytes))

HasNul(s) == \E i \in 1..Len(s) : s[i] = NUL

\* A faulty variant of CString_new: interior terminators are not rejected
CString_new_unchecked(s) == [ok |-> TRUE, bytes |-> Encode(s) \o <<NUL>>]

\* CString::new(s): an error on an interior terminator, else the bytes of s
\* followed by a terminator
CString_new(s) ==
    IF HasNul(s) THEN [ok |-> FALSE, bytes |-> <<>>]
    ELSE [ok |-> TRUE, bytes |-> Encode(s) \o <<NUL>>]

\* Option<CString> / Option<&str>
None == [some |-> FALSE, v |-> <<>>]
Some(x) == [some |-> TRUE, v |-> x]

\* ptr_to_string / ptr_to_pathbuf: decode a terminated native buffer
ptr_to_string(bytes) == to_string_lossy(CStr_from_ptr(bytes))
ptr_to_pathbuf(bytes) == to_string_lossy(CStr_from_ptr(bytes))

\* The literals of build()
STR_OpenFile == <<79, 112, 101, 110, 32, 70, 105, 108, 101>>
STR_SelectDirectory ==
    <<83, 101, 108, 101, 99, 116, 32, 68, 105, 114, 101, 99, 116, 111, 114, 121>>
STR_SaveFile == <<83, 97, 118, 101, 32, 70, 105, 108, 101>>
STR_AnyFilter == <<46, 42>>
STR_Dot == <<46>>
STR_Empty == <<>>

----------------------------------------------------------------------------
(* Inputs the application may pass *)

\* Keys given to build(): "k", and a key with an interior terminator
Keys == {<<107>>, <<107, NUL, 106>>}
\* Keys given to display() and is_key_opened(): those, and "j", never opened
QueryKeys == Keys \cup {<<106>>}
\* "T", and a title with an interior terminator
Titles == {<<84>>, <<84, NUL>>}
\* ".h", and a filter with an interior terminator
Filters == {<<46, 104>>, <<NUL, 46>>}
\* OS paths (bytes): "/" followed by a byte that is not UTF-8, and a path with
\* an interior terminator
Paths == {<<47, BadByte>>, <<47, NUL>>}
\* "f", and a name with an interior terminator
FileNames == {<<102>>, <<102, NUL, 102>>}
MultiArgs == {0, -1}

\* Further inputs for the builder taken alone: a second title "U", filter ".c",
\* path "/p" (valid UTF-8), file name "g" and a positive selection cap
MoreTitles == {<<85>>}
MoreFilters == {<<46, 99>>}
MorePaths == {<<47, 112>>}
MoreFileNames == {<<103>>}
MoreMultiArgs == {2}
\* ".r", and an extension with an interior terminator
Extensions == {<<46, 114>>, <<46, NUL>>}
\* no icon, "i", and an icon with an interior terminator
Icons == {None, Some(<<105>>), Some(<<NUL>>)}

----------------------------------------------------------------------------
(* The builder *)

ImGuiFileDialogFlags_None == 0
ImGuiFileDialogFlags_ConfirmOverwrite == 1

\* a | b on the one flag bit the crate uses
BitOr(x, y) == IF x = 1 \/ y = 1 THEN 1 ELSE 0

\* FileDialogBuilder::new
FileDialogBuilder_new(mode) ==
    [mode |-> mode, title |-> None, filters |-> None, path |-> None,
     file_name |-> None, max_selection |-> 1, modal |-> FALSE,
     flags |-> ImGuiFileDialogFlags_None]

NoGiven ==
    [title |-> None, filters |-> None, path |-> None, file_name |-> None,
     multi |-> None, modal |-> FALSE, confirm |-> FALSE, key |-> None]

NoBuilder == FileDialogBuilder_new("OpenFile")

----------------------------------------------------------------------------
(* The C heap: cells are native string buffers and native selection tables *)

Addr == 1..(MaxSel + 1)

FreeCell == [st |-> "free", data |-> <<>>]
EmptyHeap == [a \in Addr |-> FreeCell]

\* The memory state threaded through one operation: the heap, the violations
\* seen, and the number of release calls the operation made
Mem(h, f) == [heap |-> h, faults |-> f, frees |-> 0]

\* The address the allocator hands out next
NextAddr(h) == CHOOSE a \in Addr : h[a].st = "free" /\ \A c \in Addr : c < a => h[c].st # "free"

\* An allocation made by the native engine, holding data
M_alloc(m, data) ==
    [m EXCEPT !.heap[NextAddr(m.heap)] = [st |-> "used", data |-> data]]

\* A read through a pointer
M_read(m, a) ==
    IF m.heap[a].st = "used" THEN m
    ELSE [m EXCEPT !.faults = @ \cup {"use_after_free"}]

\* libc::free / IGFD_Selection_DestroyContent on a pointer
M_free(m, a) ==
    IF m.heap[a].st = "used"
    THEN [m EXCEPT !.heap[a] = FreeCell, !.frees = @ + 1]
    ELSE [m EXCEPT !.faults = @ \cup {"double_free"}, !.frees = @ + 1]

----------------------------------------------------------------------------
(* The native engine, as far as the interface describes it *)

\* One (fileName, filePathName) pair of terminated buffers
Pair(name, path) == [fileName |-> name \o <<NUL>>, filePathName |-> path \o <<NUL>>]
PairA == Pair(<<97>>, <<47, 97>>)
PairB == Pair(<<BadByte>>, <<47, BadByte>>)

\* The selections a confirmation may leave in the engine
NativeTables == {<<>>, <<PairB, PairA>>}

\* What a scalar string accessor may return: null, or a terminated buffer
NativeStrings == {None, Some(<<47, 100, NUL>>), Some(<<BadByte, NUL>>)}

NoKey == <<>>
NativeClosed == [phase |-> "Closed", key |-> NoKey, sel |-> <<>>]

\* IGFD_OpenDialog / IGFD_OpenModal on the engine: a closed engine opens the key;
\* the effect of opening while a session is in progress is not specified
Native_Open(n, key) ==
    LET fresh == [phase |-> "Opened", key |-> key, sel |-> <<>>]
    IN  IF n.phase = "Closed" THEN {fresh} ELSE {n, fresh}

\* IGFD_DisplayDialog: one frame of the dialog with this key; the user may
\* confirm (leaving a selection) or cancel
Native_Display(n, key) ==
    IF n.phase = "Opened" /\ n.key = key
    THEN {[n |-> n, visible |-> TRUE], [n |-> [n EXCEPT !.phase = "Cancelled"], visible |-> FALSE]}
         \cup {[n |-> [n EXCEPT !.phase = "OK", !.sel = t], visible |-> FALSE] : t \in NativeTables}
    ELSE {[n |-> n, visible |-> FALSE]}

\* IGFD_CloseDialog
Native_Close(n) == NativeClosed

\* IGFD_IsOk / IGFD_IsOpened / IGFD_IsKeyOpened
Native_IsOk(n) == n.phase = "OK"
Native_IsOpened(n) == n.phase # "Closed"
Native_IsKeyOpened(n, key) == n.phase # "Closed" /\ n.key = key

\* Every call that passes the context pointer dereferences it
CtxUse(i, f) == IF i = "alive" THEN f ELSE f \cup {"ctx_use_after_destroy"}

\* IGFD_Destroy
Native_Destroy(i, f) == IF i = "alive" THEN f ELSE f \cup {"ctx_double_destroy"}

----------------------------------------------------------------------------
(* Results of operations *)

\* The record of the operation just executed: whether it panicked, its boolean
\* result, its Option result, a list result, what the native accessor returned
\* (nres, when called) and how many release calls it made; for an operation on
\* a Selection, src is the native table the Selection was obtained from
Ret(op) ==
    [op |-> op, panic |-> FALSE, flag |-> FALSE, some |-> FALSE, val |-> <<>>,
     list |-> <<>>, called |-> FALSE, nres |-> None, frees |-> 0, src |-> <<>>]

Panic(op) == [Ret(op) EXCEPT !.panic = TRUE]

----------------------------------------------------------------------------
(* build(): the arguments of the native open call *)

\* A pointer argument: null, or a buffer together with the scope that owns it
NullPtr == [null |-> TRUE, scope |-> "none", bytes |-> <<>>]
Ptr(bytes, scope) == [null |-> FALSE, scope |-> scope, bytes |-> bytes]

\* Whether a buffer owned by this scope is still allocated when build() reaches
\* the native call: the builder's fields and the function's locals are dropped
\* when build() returns, a local of the filter match arm when the arm ends
LiveAtCall(scope) == scope \in {"self", "fn"}

\* What may stand in a released buffer when the engine reads it: the old bytes,
\* the bytes of a later allocation that took its place ("."), or anything else
DanglingReads(bytes) ==
    {CStr_from_ptr(bytes), STR_Dot, <<BadByte>>}

\* The strings the engine may read through a pointer argument
NativeSees(p) ==
    IF p.null THEN {None}
    ELSE IF LiveAtCall(p.scope) THEN {Some(CStr_from_ptr(p.bytes))}
    ELSE {Some(x) : x \in DanglingReads(p.bytes)}

default_title(mode) ==
    CASE mode = "OpenFile" -> CString_new(STR_OpenFile).bytes
      [] mode = "OpenDirectory" -> CString_new(STR_SelectDirectory).bytes
      [] mode = "SaveFile" -> CString_new(STR_SaveFile).bytes

\* self.<field>.as_ref().unwrap_or(&default): a field of the builder, else a
\* local of build()
unwrap_or(field, default) ==
    IF field.some THEN Ptr(field.v, "self") ELSE Ptr(default, "fn")

\* filters_ptr: null in directory mode, else the builder's filter, else the
\* default filter, a local of the match arm
filters_ptr(bb) ==
    IF bb.mode = "OpenDirectory" THEN NullPtr
    ELSE IF bb.filters.some THEN Ptr(bb.filters.v, "self")
    ELSE Ptr(CString_new(STR_AnyFilter).bytes, "match_arm")

\* A faulty variant of build_entry: the modal flag is ignored
build_entry_never_modal(bb) == "IGFD_OpenDialog"

\* The native entry point build() calls
build_entry(bb) == IF bb.modal THEN "IGFD_OpenModal" ELSE "IGFD_OpenDialog"

\* A faulty variant of build_args: the default path is the empty string and the
\* selection cap is not passed on
build_args_wrong_defaults(bb, key_c) ==
    [fn |-> build_entry(bb),
     key |-> Ptr(key_c, "fn"),
     title |-> unwrap_or(bb.title, default_title(bb.mode)),
     filters |-> filters_ptr(bb),
     path |-> unwrap_or(bb.path, CString_new(STR_Empty).bytes),
     file_name |-> unwrap_or(bb.file_name, CString_new(STR_Empty).bytes),
     count_selection_max |-> 1,
     user_datas |-> "null",
     flags |-> bb.flags]

\* The arguments build() passes to the native open call
build_args(bb, key_c) ==
    [fn |-> build_entry(bb),
     key |-> Ptr(key_c, "fn"),
     title |-> unwrap_or(bb.title, default_title(bb.mode)),
     filters |-> filters_ptr(bb),
     path |-> unwrap_or(bb.path, CString_new(STR_Dot).bytes),
     file_name |-> unwrap_or(bb.file_name, CString_new(STR_Empty).bytes),
     count_selection_max |-> bb.max_selection,
     user_datas |-> "null",
     flags |-> bb.flags]

\* No native open call
NoCall ==
    [issued |-> FALSE, args |-> build_args(NoBuilder, <<NUL>>),
     seen |-> [key |-> None, title |-> None, filters |-> None, path |-> None,
               file_name |-> None]]

----------------------------------------------------------------------------
(* Result extraction *)

\* A faulty variant of decode_and_free: the buffer is released before it is decoded
decode_after_free(m, nres) ==
    IF ~nres.some THEN [m |-> m, val |-> None]
    ELSE LET a == NextAddr(m.heap)
             m1 == M_alloc(m, nres.v)
             m2 == M_free(m1, a)
             m3 == M_read(m2, a)
         IN  [m |-> m3, val |-> Some(ptr_to_pathbuf(m2.heap[a].data))]

\* The unsafe block of file_path_name / current_path / current_filter: nres is
\* what the native accessor returned (a buffer it allocated, or null); a null
\* gives None, a buffer is decoded and then released with libc::free
decode_and_free(m, nres) ==
    IF ~nres.some THEN [m |-> m, val |-> None]
    ELSE LET a == NextAddr(m.heap)
             m1 == M_alloc(m, nres.v)
             m2 == M_read(m1, a)
             s == ptr_to_pathbuf(m1.heap[a].data)
             m3 == M_free(m2, a)
         IN  [m |-> m3, val |-> Some(s)]

\* A faulty variant of guarded_by_is_ok: the accessor does not ask is_ok()
guarded_never(op) == FALSE

\* The accessors that return None at once unless is_ok()
guarded_by_is_ok(op) == op \in {"selection", "file_path_name"}

\* A faulty variant of Selection_files: the display name of each pair is
\* yielded in place of its full path
Selection_files_by_name(m, s) ==
    LET cell == m.heap[s.table]
    IN  [m |-> M_read(m, s.table),
         list |-> IF cell.st = "used"
                  THEN [i \in 1..s.count |-> ptr_to_pathbuf(cell.data[i].fileName)]
                  ELSE <<>>]

\* Selection::files on a Selection value: the decoded filePathName of each of
\* the first inner.count pairs of the table
Selection_files(m, s) ==
    LET cell == m.heap[s.table]
    IN  [m |-> M_read(m, s.table),
         list |-> IF cell.st = "used"
                  THEN [i \in 1..s.count |-> ptr_to_pathbuf(cell.data[i].filePathName)]
                  ELSE <<>>]

\* Drop for Selection: IGFD_Selection_DestroyContent on the table
Selection_drop(m, s) == M_free(m, s.table)

\* A faulty variant of Selection_into_vec: the table is destroyed before it is read
Selection_into_vec_early_drop(m, s) ==
    LET m1 == Selection_drop(m, s)
        r == Selection_files(m1, s)
    IN  [m |-> r.m, list |-> r.list]

\* Selection::into_vec: collect files(), then self is dropped
Selection_into_vec(m, s) ==
    LET r == Selection_files(m, s)
    IN  [m |-> Selection_drop(r.m, s), list |-> r.list]

----------------------------------------------------------------------------
(* The initial state: let dialog = FileDialog::new() *)

Init ==
    /\ dlg = "live"
    /\ inst = "alive"
    /\ nat = NativeClosed
    /\ bstate = "none"
    /\ b = NoBuilder
    /\ given = NoGiven
    /\ bOpens = 0
    /\ lastCall = NoCall
    /\ openKeys = {}
    /\ opened = FALSE
    /\ heap = EmptyHeap
    /\ owned = {}
    /\ faults = {}
    /\ ret = Ret("new")
    /\ owner = 1
    /\ running = {}

\* A faulty variant of DialogUsable: FileDialog can be copied, so that a copy is still
\* usable after the value was dropped
DialogUsable_copyable == bstate # "configuring"

\* A FileDialog method can be called: the value exists and no builder holds
\* the exclusive borrow of it
DialogUsable == dlg = "live" /\ bstate # "configuring"

\* The builder of an earlier statement is gone; its record is cleared
BuilderGone ==
    /\ bstate' = "none"
    /\ b' = NoBuilder
    /\ given' = NoGiven
    /\ bOpens' = 0
    /\ lastCall' = NoCall

BuilderVars == <<bstate, b, given, bOpens, lastCall>>

----------------------------------------------------------------------------
(* The builder's operations *)

\* FileDialog::open_file / open_directory / save_file
NewBuilder(op, mode) ==
    /\ DialogUsable
    /\ bstate' = "configuring"
    /\ b' = FileDialogBuilder_new(mode)
    /\ given' = NoGiven
    /\ bOpens' = 0
    /\ lastCall' = NoCall
    /\ ret' = Ret("builder")
    /\ UNCHANGED <<dlg, inst, nat, openKeys, opened, heap, owned, faults>>

open_file == NewBuilder("open_file", "OpenFile")
open_directory == NewBuilder("open_directory", "OpenDirectory")
save_file == NewBuilder("save_file", "SaveFile")

\* A configuration call whose CString::new(..).unwrap() decides it: c is the
\* conversion's result, bb the builder it returns when the conversion succeeds
SetString(op, c, bb, g) ==
    /\ bstate = "configuring"
    /\ IF c.ok
       THEN /\ b' = bb
            /\ given' = g
            /\ bstate' = bstate
            /\ ret' = Ret("builder")
       ELSE /\ b' = NoBuilder
            /\ given' = [NoGiven EXCEPT ![op] = g[op]]
            /\ bstate' = "panicked"
            /\ ret' = Panic("builder")
    /\ UNCHANGED <<dlg, inst, nat, bOpens, lastCall, openKeys, opened, heap, owned, faults>>

title_with(s) ==
    LET c == CString_new(s)
    IN  SetString("title", c, [b EXCEPT !.title = Some(c.bytes)],
                  [given EXCEPT !.title = Some(s)])

title == \E s \in Titles : title_with(s)

filters_with(s) ==
    LET c == CString_new(s)
    IN  SetString("filters", c, [b EXCEPT !.filters = Some(c.bytes)],
                  [given EXCEPT !.filters = Some(s)])

filters == \E s \in Filters : filters_with(s)

path_with(p) ==
    LET c == CString_new(to_string_lossy(p))
    IN  SetString("path", c, [b EXCEPT !.path = Some(c.bytes)],
                  [given EXCEPT !.path = Some(p)])

path == \E p \in Paths : path_with(p)

file_name_with(s) ==
    LET c == CString_new(s)
    IN  SetString("file_name", c, [b EXCEPT !.file_name = Some(c.bytes)],
                  [given EXCEPT !.file_name = Some(s)])

file_name == \E s \in FileNames : file_name_with(s)

\* A configuration call that cannot fail
SetField(op, bb, g) ==
    /\ bstate = "configuring"
    /\ b' = bb
    /\ given' = g
    /\ ret' = Ret("builder")
    /\ UNCHANGED <<dlg, inst, nat, bstate, bOpens, lastCall, openKeys, opened, heap, owned, faults>>

\* A faulty variant of multi_select_with: a negative cap is stored as 0
multi_select_clamped(max) ==
    SetField("multi_select", [b EXCEPT !.max_selection = IF max < 0 THEN 0 ELSE max],
             [given EXCEPT !.multi = Some(<<max>>)])

multi_select_with(max) ==
    SetField("multi_select", [b EXCEPT !.max_selection = max],
             [given EXCEPT !.multi = Some(<<max>>)])

multi_select == \E max \in MultiArgs : multi_select_with(max)

modal == SetField("modal", [b EXCEPT !.modal = TRUE], [given EXCEPT !.modal = TRUE])

confirm_overwrite ==
    SetField("confirm_overwrite",
             [b EXCEPT !.flags = BitOr(@, ImGuiFileDialogFlags_ConfirmOverwrite)],
             [given EXCEPT !.confirm = TRUE])

\* FileDialogBuilder::build(key)
build ==
    \E key \in Keys :
        LET key_c == CString_new(key)
            args == build_args(b, key_c.bytes)
        IN  /\ bstate = "configuring"
            /\ IF ~key_c.ok
               THEN /\ b' = NoBuilder
                    /\ given' = [NoGiven EXCEPT !.key = Some(key)]
                    /\ bstate' = "panicked"
                    /\ ret' = Panic("build")
                    /\ UNCHANGED <<nat, bOpens, lastCall, openKeys, opened, faults>>
               ELSE \E sk \in NativeSees(args.key), st \in NativeSees(args.title),
                       sf \in NativeSees(args.filters), sp \in NativeSees(args.path),
                       sn \in NativeSees(args.file_name) :
                    \E n \in Native_Open(nat, sk.v) :
                        /\ b' = b
                        /\ given' = [given EXCEPT !.key = Some(key)]
                        /\ nat' = n
                        /\ lastCall' = [issued |-> TRUE, args |-> args,
                                        seen |-> [key |-> sk, title |-> st, filters |-> sf,
                                                  path |-> sp, file_name |-> sn]]
                        /\ bOpens' = bOpens + 1
                        /\ openKeys' = openKeys \cup {sk.v}
                        /\ opened' = TRUE
                        /\ faults' = CtxUse(inst, faults)
                        /\ bstate' = "finalized"
                        /\ ret' = Ret("build")
            /\ UNCHANGED <<dlg, inst, heap, owned>>

\* A builder that goes out of scope without build()
drop_builder ==
    /\ bstate = "configuring"
    /\ bstate' = "dropped"
    /\ b' = NoBuilder
    /\ given' = NoGiven
    /\ ret' = Ret("drop_builder")
    /\ UNCHANGED <<dlg, inst, nat, bOpens, lastCall, openKeys, opened, heap, owned, faults>>

----------------------------------------------------------------------------
(* The session protocol *)

\* FileDialog::display(key, min_size, max_size)
display ==
    \E key \in QueryKeys :
        LET key_c == CString_new(key)
        IN  /\ DialogUsable
            /\ BuilderGone
            /\ IF ~key_c.ok
               THEN /\ ret' = Panic("display")
                    /\ UNCHANGED <<nat, faults>>
               ELSE \E o \in Native_Display(nat, CStr_from_ptr(key_c.bytes)) :
                        /\ nat' = o.n
                        /\ ret' = [Ret("display") EXCEPT !.flag = o.visible]
                        /\ faults' = CtxUse(inst, faults)
            /\ UNCHANGED <<dlg, inst, openKeys, opened, heap, owned>>

\* FileDialog::is_ok
is_ok ==
    /\ DialogUsable
    /\ BuilderGone
    /\ ret' = [Ret("is_ok") EXCEPT !.flag = Native_IsOk(nat)]
    /\ faults' = CtxUse(inst, faults)
    /\ UNCHANGED <<dlg, inst, nat, openKeys, opened, heap, owned>>

\* FileDialog::is_opened
is_opened ==
    /\ DialogUsable
    /\ BuilderGone
    /\ ret' = [Ret("is_opened") EXCEPT !.flag = Native_IsOpened(nat)]
    /\ faults' = CtxUse(inst, faults)
    /\ UNCHANGED <<dlg, inst, nat, openKeys, opened, heap, owned>>

\* A faulty variant of is_key_opened_result: the key is passed on without the check for
\* an interior terminator
is_key_opened_unchecked(n, key) ==
    [panic |-> FALSE,
     flag |-> Native_IsKeyOpened(n, CStr_from_ptr(CString_new_unchecked(key).bytes))]

\* The body of is_key_opened: CString::new(key).unwrap(), then the native query
is_key_opened_result(n, key) ==
    LET key_c == CString_new(key)
    IN  IF ~key_c.ok THEN [panic |-> TRUE, flag |-> FALSE]
        ELSE [panic |-> FALSE, flag |-> Native_IsKeyOpened(n, CStr_from_ptr(key_c.bytes))]

\* FileDialog::is_key_opened(key)
is_key_opened ==
    \E key \in QueryKeys :
        LET r == is_key_opened_result(nat, key)
        IN  /\ DialogUsable
            /\ BuilderGone
            /\ ret' = [Ret("is_key_opened") EXCEPT !.val = key, !.panic = r.panic,
                                                   !.flag = r.flag]
            /\ faults' = IF r.panic THEN faults ELSE CtxUse(inst, faults)
            /\ UNCHANGED <<dlg, inst, nat, openKeys, opened, heap, owned>>

\* FileDialog::close
close ==
    /\ DialogUsable
    /\ BuilderGone
    /\ nat' = Native_Close(nat)
    /\ openKeys' = {}
    /\ ret' = Ret("close")
    /\ faults' = CtxUse(inst, faults)
    /\ UNCHANGED <<dlg, inst, opened, heap, owned>>

\* FileDialog::set_extension_infos(extension, color, icon)
set_extension_infos ==
    \E e \in Extensions, icon \in Icons :
        LET ext_c == CString_new(e)
            icon_c == IF icon.some THEN CString_new(icon.v) ELSE [ok |-> TRUE, bytes |-> <<>>]
        IN  /\ DialogUsable
            /\ BuilderGone
            /\ IF ~ext_c.ok \/ ~icon_c.ok
               THEN /\ ret' = Panic("set_extension_infos")
                    /\ UNCHANGED faults
               ELSE /\ ret' = Ret("set_extension_infos")
                    /\ faults' = CtxUse(inst, faults)
            /\ UNCHANGED <<dlg, inst, nat, openKeys, opened, heap, owned>>

\* FileDialog::clear_extension_infos
clear_extension_infos ==
    /\ DialogUsable
    /\ BuilderGone
    /\ ret' = Ret("clear_extension_infos")
    /\ faults' = CtxUse(inst, faults)
    /\ UNCHANGED <<dlg, inst, nat, openKeys, opened, heap, owned>>

\* Drop for FileDialog
drop_FileDialog ==
    /\ DialogUsable
    /\ BuilderGone
    /\ dlg' = "dropped"
    /\ faults' = Native_Destroy(inst, faults)
    /\ inst' = "destroyed"
    /\ ret' = Ret("drop_FileDialog")
    /\ UNCHANGED <<nat, openKeys, opened, heap, owned>>

----------------------------------------------------------------------------
(* The result accessors *)

\* FileDialog::selection; the pairs field of the Selection record keeps, for
\* the properties, the native table the Selection was obtained from
selection ==
    /\ DialogUsable
    /\ BuilderGone
    /\ IF guarded_by_is_ok("selection") /\ ~Native_IsOk(nat)
       THEN /\ ret' = Ret("selection")
            /\ UNCHANGED <<heap, owned>>
       ELSE /\ Cardinality(owned) < MaxSel
            /\ LET m == M_alloc(Mem(heap, faults), nat.sel)
               IN  /\ heap' = m.heap
                   /\ owned' = owned \cup {[table |-> NextAddr(heap), count |-> Len(nat.sel),
                                           pairs |-> nat.sel]}
                   /\ ret' = [Ret("selection") EXCEPT !.some = TRUE, !.called = TRUE]
    /\ faults' = CtxUse(inst, faults)
    /\ UNCHANGED <<dlg, inst, nat, openKeys, opened>>

\* FileDialog::file_path_name / current_path / current_filter
ScalarAccessor(op) ==
    /\ DialogUsable
    /\ BuilderGone
    /\ IF guarded_by_is_ok(op) /\ ~Native_IsOk(nat)
       THEN /\ ret' = Ret(op)
            /\ faults' = CtxUse(inst, faults)
            /\ UNCHANGED heap
       ELSE \E nres \in NativeStrings :
                LET r == decode_and_free(Mem(heap, CtxUse(inst, faults)), nres)
                IN  /\ heap' = r.m.heap
                    /\ faults' = r.m.faults
                    /\ ret' = [Ret(op) EXCEPT !.some = r.val.some, !.val = r.val.v,
                                              !.called = TRUE, !.nres = nres,
                                              !.frees = r.m.frees]
    /\ UNCHANGED <<dlg, inst, nat, openKeys, opened, owned>>

file_path_name == ScalarAccessor("file_path_name")
current_path == ScalarAccessor("current_path")
current_filter == ScalarAccessor("current_filter")

----------------------------------------------------------------------------
(* The Selection value's operations: a Selection borrows nothing, so they can
   run while a builder is being configured and after the FileDialog is gone *)

\* The builder's record is cleared unless a builder is being configured
BuilderKeptOrGone ==
    IF bstate = "configuring" THEN UNCHANGED BuilderVars ELSE BuilderGone

\* Selection::count
Selection_count_op ==
    \E s \in owned :
        /\ BuilderKeptOrGone
        /\ ret' = [Ret("count") EXCEPT !.val = <<s.count>>, !.nres = Some(<<s.table>>),
                                       !.src = s.pairs]
        /\ UNCHANGED <<dlg, inst, nat, openKeys, opened, heap, owned, faults>>

\* Selection::files, iterated to its end
Selection_files_op ==
    \E s \in owned :
        LET r == Selection_files(Mem(heap, faults), s)
        IN  /\ BuilderKeptOrGone
            /\ faults' = r.m.faults
            /\ ret' = [Ret("files") EXCEPT !.list = r.list, !.nres = Some(<<s.table>>),
                                           !.frees = r.m.frees, !.src = s.pairs]
            /\ UNCHANGED <<dlg, inst, nat, openKeys, opened, heap, owned>>

\* Selection::into_vec
Selection_into_vec_op ==
    \E s \in owned :
        LET r == Selection_into_vec(Mem(heap, faults), s)
        IN  /\ BuilderKeptOrGone
            /\ heap' = r.m.heap
            /\ faults' = r.m.faults
            /\ owned' = owned \ {s}
            /\ ret' = [Ret("into_vec") EXCEPT !.list = r.list, !.nres = Some(<<s.table>>),
                                              !.frees = r.m.frees, !.src = s.pairs]
            /\ UNCHANGED <<dlg, inst, nat, openKeys, opened>>

\* A Selection value going out of scope
Selection_drop_op ==
    \E s \in owned :
        LET m == Selection_drop(Mem(heap, faults), s)
        IN  /\ BuilderKeptOrGone
            /\ heap' = m.heap
            /\ faults' = m.faults
            /\ owned' = owned \ {s}
            /\ ret' = [Ret("drop_Selection") EXCEPT !.nres = Some(<<s.table>>),
                                                    !.frees = m.frees]
            /\ UNCHANGED <<dlg, inst, nat, openKeys, opened>>

----------------------------------------------------------------------------

(* The program on one thread: every operation is a call made by the thread
   that created the FileDialog, which runs to its return *)

ThreadVars == <<owner, running>>

\* An operation called and completed in one step
Atomic(A) == A /\ UNCHANGED ThreadVars

Next ==
    \/ Atomic(open_file)
    \/ Atomic(open_directory)
    \/ Atomic(save_file)
    \/ Atomic(title)
    \/ Atomic(filters)
    \/ Atomic(path)
    \/ Atomic(file_name)
    \/ Atomic(multi_select)
    \/ Atomic(modal)
    \/ Atomic(confirm_overwrite)
    \/ Atomic(build)
    \/ Atomic(drop_builder)
    \/ Atomic(display)
    \/ Atomic(is_ok)
    \/ Atomic(is_opened)
    \/ Atomic(is_key_opened)
    \/ Atomic(close)
    \/ Atomic(set_extension_infos)
    \/ Atomic(clear_extension_infos)
    \/ Atomic(drop_FileDialog)
    \/ Atomic(selection)
    \/ Atomic(file_path_name)
    \/ Atomic(current_path)
    \/ Atomic(current_filter)
    \/ Atomic(Selection_count_op)
    \/ Atomic(Selection_files_op)
    \/ Atomic(Selection_into_vec_op)
    \/ Atomic(Selection_drop_op)

Spec == Init /\ [][Next]_vars

----------------------------------------------------------------------------
(* The program on several threads: a call and its return are separate steps,
   and the FileDialog can be moved from thread to thread *)

Threads == 1..MaxThreads

\* A faulty variant of CanAccess: FileDialog is also Sync, so that every thread
\* can hold a reference to it
CanAccess_shared(t) == TRUE

\* Thread t can reach the FileDialog: FileDialog is Send and neither Sync nor
\* Clone, so only the thread holding the value can, directly or through the
\* builder that borrows it
CanAccess(t) == t = owner

\* The FileDialog is moved from thread t to thread u; a value cannot be moved
\* while a method call or a builder borrows it
thread_send(t, u) ==
    /\ dlg = "live"
    /\ owner = t
    /\ u # t
    /\ t \notin running
    /\ bstate # "configuring"
    /\ owner' = u
    /\ UNCHANGED <<dlg, inst, nat, bstate, b, given, bOpens, lastCall, openKeys,
                   opened, heap, owned, faults, ret, running>>

\* Thread t enters a method of the FileDialog or of its builder
thread_call(t) ==
    /\ dlg = "live"
    /\ CanAccess(t)
    /\ t \notin running
    /\ running' = running \cup {t}
    /\ UNCHANGED <<dlg, inst, nat, bstate, b, given, bOpens, lastCall, openKeys,
                   opened, heap, owned, faults, ret, owner>>

\* The method thread t is in takes effect and returns
Exec(t, A) ==
    /\ t \in running
    /\ running' = running \ {t}
    /\ owner' = owner
    /\ A

NextThreads ==
    \/ \E t, u \in Threads : thread_send(t, u)
    \/ \E t \in Threads : thread_call(t)
    \/ \E t \in Threads : Exec(t, open_file)
    \/ \E t \in Threads : Exec(t, modal)
    \/ \E t \in Threads : Exec(t, build)
    \/ \E t \in Threads : Exec(t, drop_builder)
    \/ \E t \in Threads : Exec(t, display)
    \/ \E t \in Threads : Exec(t, is_ok)
    \/ \E t \in Threads : Exec(t, is_opened)
    \/ \E t \in Threads : Exec(t, close)
    \/ \E t \in Threads : Exec(t, current_path)
    \/ \E t \in Threads : Exec(t, drop_FileDialog)

SpecThreads == Init /\ [][NextThreads]_vars

----------------------------------------------------------------------------
(* The builder taken alone, on one thread, with more inputs per field *)

NextBuilder ==
    \/ Atomic(open_file)
    \/ Atomic(open_directory)
    \/ Atomic(save_file)
    \/ \E s \in Titles \cup MoreTitles : Atomic(title_with(s))
    \/ \E s \in Filters \cup MoreFilters : Atomic(filters_with(s))
    \/ \E p \in Paths \cup MorePaths : Atomic(path_with(p))
    \/ \E s \in FileNames \cup MoreFileNames : Atomic(file_name_with(s))
    \/ \E max \in MultiArgs \cup MoreMultiArgs : Atomic(multi_select_with(max))
    \/ Atomic(modal)
    \/ Atomic(confirm_overwrite)
    \/ Atomic(build)
    \/ Atomic(drop_builder)

SpecBuilder == Init /\ [][NextBuilder]_vars

----------------------------------------------------------------------------
(* Properties *)

ResultAccessors == {"selection", "file_path_name", "current_path", "current_filter"}
ScalarAccessors == {"file_path_name", "current_path", "current_filter"}

\* build() was called on the current builder
BuildCalled == given.key.some

\* The filter the application asked for: the argument of the last filters()
\* call, or ".*"
FilterAsked == IF given.filters.some THEN Encode(given.filters.v) ELSE STR_AnyFilter

\* C1: a result accessor (selection, file_path_name, current_path,
\* current_filter) returns Some only when is_ok() is true
C1_SomeOnlyWhenOk ==
    (ret.op \in ResultAccessors /\ ret.some) => Native_IsOk(nat)

\* C2: the filter the native open call receives is the string of the last
\* filters() call, or ".*" without one, for OpenFile and SaveFile, and null for
\* OpenDirectory
C2_FilterReceived ==
    lastCall.issued =>
        IF b.mode = "OpenDirectory" THEN lastCall.seen.filters = None
        ELSE lastCall.seen.filters = Some(FilterAsked)

\* C3 as stated: every build(key) issues exactly one native open call, through
\* the entry point the modal flag selects; every other builder issues none
C3_OneOpenPerBuild ==
    /\ bOpens <= 1
    /\ BuildCalled =>
          /\ bOpens = 1
          /\ lastCall.issued
          /\ lastCall.args.fn = (IF given.modal THEN "IGFD_OpenModal" ELSE "IGFD_OpenDialog")
    /\ ~BuildCalled => (bOpens = 0 /\ ~lastCall.issued)

\* C3, amended: a builder issues at most one native open call: exactly one,
\* through the entry point the modal flag selects, when build(key) is called
\* with a key free of interior terminators, and none when build(key) panics on
\* its key or the builder is dropped without build; a finalized builder is gone
\* and no later step issues a call on its behalf
C3_OneOpenPerBuilder ==
    [][/\ bOpens' <= 1
       /\ (BuildCalled' /\ ~HasNul(given'.key.v)) =>
             /\ bstate' = "finalized"
             /\ bOpens' = 1
             /\ lastCall'.issued
             /\ lastCall'.args.fn =
                  (IF given'.modal THEN "IGFD_OpenModal" ELSE "IGFD_OpenDialog")
       /\ (~BuildCalled' \/ HasNul(given'.key.v)) =>
             (bstate' # "finalized" /\ bOpens' = 0 /\ ~lastCall'.issued)
       /\ bstate \in {"finalized", "panicked", "dropped"} =>
             (bstate' \in {"none", "configuring"} /\ ~lastCall'.issued)]_vars

\* A modal builder was finalized: one call, through IGFD_OpenModal
C3_Witness ==
    /\ bstate = "finalized"
    /\ given.modal
    /\ bOpens = 1
    /\ lastCall.args.fn = "IGFD_OpenModal"

\* C4: file_path_name, current_path and current_filter return None and release
\* nothing on a null native result; a returned buffer is decoded, then released
\* exactly once; no string buffer stays allocated, none is released twice, none
\* is read after its release
C4_ScalarBuffers ==
    /\ faults \cap {"use_after_free", "double_free"} = {}
    /\ \A a \in Addr : heap[a].st = "used" => \E s \in owned : s.table = a
    /\ (ret.op \in ScalarAccessors /\ ret.called) =>
          IF ret.nres.some
          THEN /\ ret.some
               /\ ret.val = to_string_lossy(CStr_from_ptr(ret.nres.v))
               /\ ret.frees = 1
          ELSE /\ ~ret.some
               /\ ret.frees = 0

\* current_filter decoded and released a buffer while a Selection was alive
C4_Witness ==
    /\ ret.op = "current_filter"
    /\ ret.some
    /\ ret.val = <<ReplacementChar>>
    /\ ret.frees = 1
    /\ owned # {}


\* C5: every table obtained by selection() is destroyed exactly once, when its
\* Selection is dropped or consumed by into_vec; count(), files() and
\* into_vec() read it only before that; also when the Selection outlives later
\* sessions or the FileDialog
C5_SelectionTables ==
    /\ faults \cap {"use_after_free", "double_free"} = {}
    /\ \A s \in owned : heap[s.table].st = "used"
    /\ \A s1, s2 \in owned : s1.table = s2.table => s1 = s2
    /\ Cardinality({a \in Addr : heap[a].st = "used"}) = Cardinality(owned)
    /\ ret.op \in {"into_vec", "drop_Selection"} =>
          (ret.frees = 1 /\ heap[ret.nres.v[1]].st = "free")
    /\ ret.op \in {"count", "files"} =>
          (ret.frees = 0 /\ heap[ret.nres.v[1]].st = "used")

\* A Selection that outlived its FileDialog was consumed by into_vec
C5_Witness ==
    /\ dlg = "dropped"
    /\ ret.op = "into_vec"
    /\ Len(ret.list) = 2
    /\ ret.frees = 1
    /\ owned = {}

\* C6: the native instance is destroyed exactly once, when the FileDialog is
\* dropped, and no FileDialog or builder operation runs on it afterwards
C6_InstanceDestroyedOnce ==
    /\ (dlg = "dropped") <=> (inst = "destroyed")
    /\ faults \cap {"ctx_use_after_destroy", "ctx_double_destroy"} = {}
    /\ dlg = "dropped" => bstate # "configuring"

\* The FileDialog was dropped after a confirmed session
C6_Witness ==
    /\ dlg = "dropped"
    /\ inst = "destroyed"
    /\ ret.op = "drop_FileDialog"
    /\ nat.phase = "OK"

\* A string with an interior terminator was given to the current builder
NulGiven ==
    \E f \in {"title", "filters", "path", "file_name", "key"} :
        given[f].some /\ HasNul(given[f].v)

\* C7: a string with an interior terminator given to title, filters, path,
\* file_name or build(key) fails that call; no native open call is issued for
\* that builder, and the native dialog state stays as it was before the builder
\* was created
C7_NulRejected ==
    [][/\ NulGiven' =>
             /\ bstate' = "panicked"
             /\ ret'.panic
             /\ bOpens' = 0
             /\ ~lastCall'.issued
       /\ bstate' \in {"configuring", "panicked", "dropped"} =>
             (nat' = nat /\ inst' = inst /\ openKeys' = openKeys /\ opened' = opened)]_vars

\* build(key) panicked on its key while a confirmed session was in progress
C7_Witness ==
    /\ bstate = "panicked"
    /\ given.key.some
    /\ HasNul(given.key.v)
    /\ nat.phase = "OK"
    /\ bOpens = 0

\* C8: a build(key) for a key opened earlier and not closed since does not
\* reach the native open call
C8_ReopenCaught ==
    [][(bstate = "configuring" /\ BuildCalled' /\ given'.key.v \in openKeys)
          => (bOpens' = bOpens /\ ~lastCall'.issued)]_vars

\* The state a query leaves alone
QueryFrame == <<dlg, inst, nat, openKeys, opened, heap, owned, faults>>

\* C9 as stated: is_opened() and is_key_opened(key) never fail and never change
\* the dialog state, for every key; before any open call both return false
C9_QueriesNeverFail ==
    [][ret'.op \in {"is_opened", "is_key_opened"} =>
          /\ ~ret'.panic
          /\ UNCHANGED QueryFrame
          /\ ~opened => ~ret'.flag]_vars

\* C9, amended: is_opened() never fails; is_key_opened(key) fails exactly when
\* key holds an interior terminator; neither changes the dialog state, failing
\* or not; before any open call both return false
C9_Queries ==
    [][ret'.op \in {"is_opened", "is_key_opened"} =>
          /\ ret'.panic <=> (ret'.op = "is_key_opened" /\ HasNul(ret'.val))
          /\ UNCHANGED QueryFrame
          /\ ~opened => ~ret'.flag]_vars

\* is_key_opened answered true for the key of the open dialog
C9_Witness ==
    /\ ret.op = "is_key_opened"
    /\ ~ret.panic
    /\ ret.flag
    /\ nat.phase = "Opened"

\* The title build() passes without a title() call
TitleOf(mode) ==
    CASE mode = "OpenFile" -> STR_OpenFile
      [] mode = "OpenDirectory" -> STR_SelectDirectory
      [] mode = "SaveFile" -> STR_SaveFile

\* C10: a builder finalized without configuration passes the mode's title,
\* path ".", an empty file name, a selection cap of 1, flags 0 and a null
\* user-data pointer; a configuration call replaces its own field only
C10_Defaults ==
    lastCall.issued =>
        /\ lastCall.seen.title =
              Some(IF given.title.some THEN Encode(given.title.v) ELSE TitleOf(b.mode))
        /\ lastCall.seen.path =
              Some(IF given.path.some THEN Encode(to_string_lossy(given.path.v)) ELSE STR_Dot)
        /\ lastCall.seen.file_name =
              Some(IF given.file_name.some THEN Encode(given.file_name.v) ELSE STR_Empty)
        /\ lastCall.args.count_selection_max =
              (IF given.multi.some THEN given.multi.v[1] ELSE 1)
        /\ lastCall.args.flags = (IF given.confirm THEN 1 ELSE 0)
        /\ lastCall.args.user_datas = "null"
        /\ lastCall.seen.key = Some(given.key.v)

\* An OpenDirectory builder was finalized with no configuration call
C10_Witness ==
    /\ lastCall.issued
    /\ b.mode = "OpenDirectory"
    /\ given = [NoGiven EXCEPT !.key = given.key]
    /\ lastCall.seen.title = Some(STR_SelectDirectory)
    /\ lastCall.args.count_selection_max = 1

\* C11: selection() returns Some only for a confirmed dialog whose native
\* selection holds at least one file, and None for a cancelled dialog and for
\* a confirmed dialog with no selected file
C11_SomeOnlyWithFiles ==
    ret.op = "selection" =>
        (ret.some <=> (Native_IsOk(nat) /\ Len(nat.sel) >= 1))

\* The paths of a native selection table, decoded one by one in table order
PathsOf(table) == [i \in 1..Len(table) |-> ptr_to_pathbuf(table[i].filePathName)]

C13_OneThreadAtATime ==
    /\ Cardinality(running) <= 1
    /\ running \subseteq {owner}

\* The dialog was opened, then moved; the receiving thread is inside a call
C13_Witness ==
    /\ opened
    /\ nat.phase = "Opened"
    /\ owner = 2
    /\ running = {2}

\* C14 as stated: the native open call receives the argument of the last
\* multi_select call unchanged, or 1 without one, and for title, filters, path
\* and file_name the value of their last call, whatever the order of the calls
C14_LastCallVerbatim ==
    lastCall.issued =>
        /\ lastCall.args.count_selection_max =
              (IF given.multi.some THEN given.multi.v[1] ELSE 1)
        /\ given.title.some => lastCall.seen.title = Some(given.title.v)
        /\ given.filters.some => lastCall.seen.filters = Some(given.filters.v)
        /\ given.path.some => lastCall.seen.path = Some(given.path.v)
        /\ given.file_name.some => lastCall.seen.file_name = Some(given.file_name.v)

\* C14, amended: the native open call receives the argument of the last
\* multi_select call unchanged, or 1 without one; the string of the last title
\* and file_name call; the string of the last filters call for OpenFile and
\* SaveFile and a null filter for OpenDirectory; and the lossy UTF-8 conversion
\* of the path of the last path call. The arguments are a function of the mode
\* and of the last value given to each field, so the order of calls for
\* different fields does not matter
C14_LastCallWins ==
    lastCall.issued =>
        /\ lastCall.args.count_selection_max =
              (IF given.multi.some THEN given.multi.v[1] ELSE 1)
        /\ given.title.some => lastCall.seen.title = Some(Encode(given.title.v))
        /\ given.filters.some =>
              lastCall.seen.filters =
                 (IF b.mode = "OpenDirectory" THEN None
                  ELSE Some(Encode(given.filters.v)))
        /\ given.path.some =>
              lastCall.seen.path = Some(Encode(to_string_lossy(given.path.v)))
        /\ given.file_name.some =>
              lastCall.seen.file_name = Some(Encode(given.file_name.v))

\* A builder given every field was finalized with a negative selection cap,
\* the second title and a path that is not valid UTF-8
C14_Witness ==
    /\ lastCall.issued
    /\ given.multi = Some(<<-1>>)
    /\ lastCall.args.count_selection_max = -1
    /\ lastCall.seen.title = Some(<<85>>)
    /\ lastCall.seen.filters = Some(<<46, 99>>)
    /\ given.path = Some(<<47, BadByte>>)
    /\ lastCall.seen.path = Some(<<47, 239, 191, 189>>)
    /\ lastCall.seen.file_name = Some(<<103>>)

\* C15: at the native open call, every non-null string pointer build() passes
\* (key, title, filters, path, file name) points to a buffer that is still
\* allocated
C15_PointersLive ==
    lastCall.issued =>
        \A f \in {"key", "title", "filters", "path", "file_name"} :
            lastCall.args[f].null \/ LiveAtCall(lastCall.args[f].scope)

====
